---------------------------- MODULE Spec2Model ----------------------------
(***************************************************************************)
(* Model of the environment template synthesis of fuel-devops              *)
(* (devops/helpers/templates.py).                                          *)
(*                                                                         *)
(* Python strings are sequences of one-character strings, so that          *)
(* str(), int(), ','.join(), slicing, the 'in' substring test and the      *)
(* lexicographic order of sorted() are computed and not assumed.           *)
(* An optional value is <<>> for None and <<v>> for the value v.           *)
(* A call either returns (kind = "return") or raises (kind = "raise").     *)
(***************************************************************************)
EXTENDS Integers, Sequences, FiniteSets, TLC

VARIABLES call

vars == <<call>>

-----------------------------------------------------------------------------
(* Bounds of the explored inputs *)

MaxNumaNodes == 4

MaxVcpu == 12

MaxMemory == 8

MaxOrderLen == 2

MinNewPrefix == 23

MaxNodesCount == 3

MaxIronicNodesCount == 1

MaxIfaces == 11

BigNodesCount == 11

MaxIncludes == 2

RecursionLimit == 4

MaxTime == 6

MaxInterval == 2

MaxTimeout == 2

-----------------------------------------------------------------------------
(* Python values *)

None == <<>>

Some(v) == <<v>>

\* truth value of an optional number: None and 0 are false
Truthy(o) == o # None /\ o[1] # 0

Range(s) == {s[i] : i \in DOMAIN s}

Digit == <<"0", "1", "2", "3", "4", "5", "6", "7", "8", "9">>

\* str(n) for n >= 0
RECURSIVE str(_)
str(n) == IF n < 10 THEN <<Digit[n + 1]>>
          ELSE str(n \div 10) \o <<Digit[(n % 10) + 1]>>

IsDigit(c) == \E d \in 0..9 : Digit[d + 1] = c

DigitVal(c) == CHOOSE d \in 0..9 : Digit[d + 1] = c

\* int(s) for a string of decimal digits
RECURSIVE int(_)
int(s) == IF s = <<>> THEN 0
          ELSE 10 * int(SubSeq(s, 1, Len(s) - 1)) + DigitVal(s[Len(s)])

Lower == <<"a", "b", "c", "d", "e", "f", "g", "h", "i", "j", "k", "l", "m",
           "n", "o", "p", "q", "r", "s", "t", "u", "v", "w", "x", "y", "z">>

\* ord(c): the code point of a character the model uses
ord(c) ==
    IF IsDigit(c) THEN 48 + DigitVal(c)
    ELSE IF \E i \in DOMAIN Lower : Lower[i] = c
    THEN 96 + (CHOOSE i \in DOMAIN Lower : Lower[i] = c)
    ELSE CASE c = "-" -> 45
           [] c = "." -> 46
           [] c = "/" -> 47
           [] c = ":" -> 58
           [] c = "_" -> 95

\* a < b for strings: code point by code point, a proper prefix first
str_lt(a, b) ==
    \E k \in 1..(Len(b)) :
        /\ \A j \in 1..(k - 1) : j <= Len(a) /\ a[j] = b[j]
        /\ k - 1 <= Len(a)
        /\ (k > Len(a) \/ ord(a[k]) < ord(b[k]))

\* sorted(keys) for a set of strings
RECURSIVE sorted(_)
sorted(S) ==
    IF S = {} THEN <<>>
    ELSE LET m == CHOOSE x \in S : \A y \in S \ {x} : str_lt(x, y)
         IN  <<m>> \o sorted(S \ {m})

\* s[-n:], the last n characters
last(s, n) == IF Len(s) <= n THEN s ELSE SubSeq(s, Len(s) - n + 1, Len(s))

\* sep.join(parts)
RECURSIVE join(_, _)
join(sep, parts) ==
    IF parts = <<>> THEN <<>>
    ELSE IF Len(parts) = 1 THEN parts[1]
    ELSE parts[1] \o sep \o join(sep, Tail(parts))

\* sep.split: the inverse reading of a joined string (one-character sep)
RECURSIVE split(_, _)
split(sep, s) ==
    IF \A i \in DOMAIN s : s[i] # sep THEN <<s>>
    ELSE LET k == CHOOSE i \in DOMAIN s :
                      s[i] = sep /\ \A j \in 1..(i - 1) : s[j] # sep
         IN  <<SubSeq(s, 1, k - 1)>> \o split(sep, SubSeq(s, k + 1, Len(s)))

\* range(a, b)
range(a, b) == [i \in 1..(IF b > a THEN b - a ELSE 0) |-> a + i - 1]

Return(v) == [kind |-> "return", value |-> v]

Raise(exc, text, fmtargs) ==
    [kind |-> "raise", exc |-> exc, text |-> text, args |-> fmtargs]

-----------------------------------------------------------------------------
(* yaml_template_load: the !os_env constructor *)

\* s.strip(), for the whitespace the model uses
RECURSIVE lstrip(_)
lstrip(s) == IF s # <<>> /\ s[1] = " " THEN lstrip(Tail(s)) ELSE s

RECURSIVE rstrip(_)
rstrip(s) ==
    IF s # <<>> /\ s[Len(s)] = " " THEN rstrip(SubSeq(s, 1, Len(s) - 1))
    ELSE s

strip(s) == rstrip(lstrip(s))

\* s.split(sep, 1): at most one split, at the first sep
split_once(sep, s) ==
    IF \A i \in DOMAIN s : s[i] # sep THEN <<s>>
    ELSE LET k == CHOOSE i \in DOMAIN s :
                      s[i] = sep /\ \A j \in 1..(i - 1) : s[j] # sep
         IN  <<SubSeq(s, 1, k - 1), SubSeq(s, k + 1, Len(s))>>

\* yaml.load(value, TemplateLoader) of a one-line plain scalar made of
\* letters, digits, commas and blanks: the empty document is None, a
\* decimal number without a leading zero is an int, anything else a str
yaml_load(value) ==
    LET v == strip(value)
    IN  IF v = <<>> THEN [type |-> "NoneType"]
        ELSE IF (\A i \in DOMAIN v : IsDigit(v[i])) /\ (Len(v) = 1 \/ v[1] # "0")
        THEN [type |-> "int", value |-> int(v)]
        ELSE [type |-> "str", value |-> v]

\* os.environ.get(key, default), environ being the dict of the set variables
os_environ_get(environ, key, default) ==
    IF key \in DOMAIN environ THEN Some(environ[key]) ELSE default

\* mutation: a supplied default is used even when the variable is set
yaml_get_env_variable_defaultfirst(loader_name, node_tag, node_value, environ) ==
    IF strip(node_value) = <<>>
    THEN Raise("DevopsError",
               "Environment variable is required after {tag} in {filename}",
               <<node_tag, loader_name>>)
    ELSE LET parts        == split_once(",", node_value)
             env_variable == strip(parts[1])
             default_val  == IF Len(parts) > 1 THEN Some(strip(parts[2]))
                             ELSE None
             value        == IF default_val # None THEN default_val
                             ELSE os_environ_get(environ, env_variable,
                                                 default_val)
         IN  IF value = None
             THEN Raise("DevopsError",
                        "Environment variable {var} is not set from shell environment! No default value provided in file {filename}",
                        <<env_variable, loader_name>>)
             ELSE Return(yaml_load(value[1]))

yaml_get_env_variable(loader_name, node_tag, node_value, environ) ==
    IF strip(node_value) = <<>>
    THEN Raise("DevopsError",
               "Environment variable is required after {tag} in {filename}",
               <<node_tag, loader_name>>)
    ELSE LET parts        == split_once(",", node_value)
             env_variable == strip(parts[1])
             default_val  == IF Len(parts) > 1 THEN Some(strip(parts[2]))
                             ELSE None
             value        == os_environ_get(environ, env_variable, default_val)
         IN  IF value = None
             THEN Raise("DevopsError",
                        "Environment variable {var} is not set from shell environment! No default value provided in file {filename}",
                        <<env_variable, loader_name>>)
             ELSE Return(yaml_load(value[1]))

-----------------------------------------------------------------------------
(* _calculate_numa *)

\* mutation: the last CPU id of every cell is left out
numa_cell_short(x, cpus_per_numa, memory_per_numa) ==
    [cpus   |-> join(<<",">>,
                     [k \in DOMAIN range(x * cpus_per_numa,
                                         (x + 1) * cpus_per_numa - 1) |->
                        str(range(x * cpus_per_numa,
                                  (x + 1) * cpus_per_numa - 1)[k])]),
     memory |-> memory_per_numa]

numa_cell(x, cpus_per_numa, memory_per_numa) ==
    [cpus   |-> join(<<",">>,
                     [k \in DOMAIN range(x * cpus_per_numa,
                                         (x + 1) * cpus_per_numa) |->
                        str(range(x * cpus_per_numa,
                                  (x + 1) * cpus_per_numa)[k])]),
     memory |-> memory_per_numa]

\* mutation: the memory split is not validated
_calculate_numa_nomemcheck(numa_nodes, vcpu, memory, name) ==
    IF ~Truthy(numa_nodes) THEN Return(<<>>)
    ELSE LET n               == numa_nodes[1]
             cpus_per_numa   == vcpu \div n
             memory_per_numa == memory \div n
         IN  IF cpus_per_numa * n # vcpu
             THEN Raise("DevopsError",
                        "NUMA_NODES={0} is not a multiple of the number of CPU={1} for node '{2}'",
                        <<n, vcpu, name>>)
             ELSE Return([x \in 1..n |->
                             numa_cell(x - 1, cpus_per_numa, memory_per_numa)])

\* mutation: a missing or zero cell count is taken as one cell
_calculate_numa_onecell(numa_nodes, vcpu, memory, name) ==
    LET n == IF Truthy(numa_nodes) THEN numa_nodes[1] ELSE 1
    IN  Return([x \in 1..n |-> numa_cell(x - 1, vcpu \div n, memory \div n)])

\* numa_nodes is an optional number; vcpu and memory are numbers
_calculate_numa(numa_nodes, vcpu, memory, name) ==
    IF ~Truthy(numa_nodes) THEN Return(<<>>)
    ELSE LET n               == numa_nodes[1]
             cpus_per_numa   == vcpu \div n
             memory_per_numa == memory \div n
         IN  IF cpus_per_numa * n # vcpu
             THEN Raise("DevopsError",
                        "NUMA_NODES={0} is not a multiple of the number of CPU={1} for node '{2}'",
                        <<n, vcpu, name>>)
             ELSE IF memory_per_numa * n # memory
             THEN Raise("DevopsError",
                        "NUMA_NODES={0} is not a multiple of the amount of MEMORY={1} for node '{2}'",
                        <<n, memory, name>>)
             ELSE Return([x \in 1..n |->
                             numa_cell(x - 1, cpus_per_numa, memory_per_numa)])

-----------------------------------------------------------------------------
(* Network names and subnet descriptions used as inputs *)

admin == <<"a", "d", "m", "i", "n">>

fuelweb_admin == <<"f", "u", "e", "l", "w", "e", "b", "_", "a", "d", "m", "i", "n">>

public == <<"p", "u", "b", "l", "i", "c">>

private == <<"p", "r", "i", "v", "a", "t", "e">>

public2 == <<"p", "u", "b", "l", "i", "c", "2">>

ironic == <<"i", "r", "o", "n", "i", "c">>

\* 'sub in s' for strings
contains(sub, s) ==
    \E i \in 0..(Len(s) - Len(sub)) : SubSeq(s, i + 1, i + Len(sub)) = sub

cidr_10_0_0_0_24 == <<"1", "0", ".", "0", ".", "0", ".", "0", "/", "2", "4">>

cidr_10_109_0_0_16 == <<"1", "0", ".", "1", "0", "9", ".", "0", ".", "0", "/", "1", "6">>

-----------------------------------------------------------------------------
(* create_address_pools *)

\* width of an IPv4 address in bits
AddressWidth == 32

RECURSIVE pow2(_)
pow2(n) == IF n = 0 THEN 1 ELSE 2 * pow2(n - 1)

\* netaddr.IPNetwork(cidr).prefixlen: the number after the "/"
prefixlen(cidr) == int(split("/", cidr)[2])

\* mutation: the size of the configured network, not of its partition
first_subnet_size_wholenet(cidr, new_prefix) ==
    IF new_prefix < prefixlen(cidr)
    THEN Raise("StopIteration", "", <<>>)
    ELSE Return(pow2(AddressWidth - prefixlen(cidr)))

\* next(net.subnet(prefixlen=new_prefix)).size; net.subnet yields nothing
\* when the new prefix is shorter than the prefix of net
first_subnet_size(cidr, new_prefix) ==
    IF new_prefix < prefixlen(cidr)
    THEN Raise("StopIteration", "", <<>>)
    ELSE Return(pow2(AddressWidth - new_prefix))

\* mutation: the default range runs up to the middle offset inclusive
public_ip_ranges_overlap(network_size) ==
    [default  |-> <<2, network_size \div 2>>,
     floating |-> <<network_size \div 2, -2>>]

\* the ranges of a network whose name contains 'public'
public_ip_ranges(network_size) ==
    [default  |-> <<2, network_size \div 2 - 1>>,
     floating |-> <<network_size \div 2, -2>>]

address_pool(iname, networks_pools, network_size) ==
    LET net         == join(<<":">>, networks_pools[iname])
        ip_reserved == [gateway |-> 1, l2_network_device |-> 1]
        ip_ranges   == IF contains(public, iname)
                       THEN public_ip_ranges(network_size)
                       ELSE [default |-> <<2, -2>>]
    IN  IF contains(private, iname)
        THEN [net    |-> net,
              params |-> [ip_reserved |-> ip_reserved,
                          ip_ranges   |-> ip_ranges,
                          vlan_start  |-> 900,
                          vlan_end    |-> 999]]
        ELSE [net    |-> net,
              params |-> [ip_reserved |-> ip_reserved,
                          ip_ranges   |-> ip_ranges]]

\* the first name of interfaceorder that networks_pools has no entry for
first_missing(interfaceorder, networks_pools) ==
    LET missing == {i \in DOMAIN interfaceorder :
                       interfaceorder[i] \notin DOMAIN networks_pools}
    IN  interfaceorder[CHOOSE i \in missing : \A j \in missing : i <= j]

\* mutation: names without an entry in networks_pools are skipped
create_address_pools_skipmissing(interfaceorder, networks_pools) ==
    LET keys == Range(interfaceorder) \cap DOMAIN networks_pools
    IN  IF \E k \in keys : contains(public, k)
        THEN IF public \notin DOMAIN networks_pools
             THEN Raise("KeyError", "{0}", <<public>>)
             ELSE LET size == first_subnet_size(networks_pools[public][1],
                                                int(networks_pools[public][2]))
                  IN  IF size.kind = "raise" THEN size
                      ELSE Return([k \in keys |->
                                     address_pool(k, networks_pools, size.value)])
        ELSE Return([k \in keys |-> address_pool(k, networks_pools, 0)])

\* interfaceorder is a sequence of names, networks_pools maps a name to
\* <<cidr, new prefix>>, both strings
create_address_pools(interfaceorder, networks_pools) ==
    LET keys == Range(interfaceorder)
    IN  IF \E k \in keys : k \notin DOMAIN networks_pools
        THEN Raise("KeyError", "{0}",
                   <<first_missing(interfaceorder, networks_pools)>>)
        ELSE IF \E k \in keys : contains(public, k)
        THEN IF public \notin DOMAIN networks_pools
             THEN Raise("KeyError", "{0}", <<public>>)
             ELSE LET size == first_subnet_size(networks_pools[public][1],
                                                int(networks_pools[public][2]))
                  IN  IF size.kind = "raise" THEN size
                      ELSE Return([k \in keys |->
                                     address_pool(k, networks_pools, size.value)])
        ELSE Return([k \in keys |-> address_pool(k, networks_pools, 0)])

-----------------------------------------------------------------------------
(* Node names *)

slave_prefix == <<"s", "l", "a", "v", "e", "-">>

ironic_slave_prefix == <<"i", "r", "o", "n", "i", "c", "-">> \o slave_prefix

\* mutation: the number is padded to a width of 3 once it has two digits
pad2_three(n) == IF Len(str(n)) < 3 THEN <<"0">> \o str(n) ELSE str(n)

\* '{0:0>2}'.format(n): str(n) padded on the left with "0" to width 2
pad2(n) == IF Len(str(n)) < 2 THEN <<"0">> \o str(n) ELSE str(n)

SlaveName(n) == slave_prefix \o pad2(n)

IronicName(n) == ironic_slave_prefix \o pad2(n)

-----------------------------------------------------------------------------
(* Interface layout of create_admin_config and create_slave_config *)

iface == <<"i", "f", "a", "c", "e">>

eth0 == <<"e", "t", "h", "0">>

eth1 == <<"e", "t", "h", "1">>

eth2 == <<"e", "t", "h", "2">>

eth10 == <<"e", "t", "h", "1", "0">>

interface(label, iname) ==
    [label |-> label, l2_network_device |-> iname, interface_model |-> "e1000"]

\* mutation: labels are numbered from 1
enumerate_interfaces_from1(order) ==
    [n \in DOMAIN order |-> interface(iface \o str(n), order[n])]

\* [{'label': 'iface' + str(n), ...} for n, iname in enumerate(order)]
enumerate_interfaces(order) ==
    [n \in DOMAIN order |-> interface(iface \o str(n - 1), order[n])]

\* A bonding map is the sequence of its items <<iname, labels>> in the
\* iteration order of the dictionary.
bonding_keys(networks_bondinginterfaces) ==
    [i \in DOMAIN networks_bondinginterfaces |->
        networks_bondinginterfaces[i][1]]

\* the pairs <<label, iname>> in the order the comprehension visits them
RECURSIVE bonding_pairs(_)
bonding_pairs(networks_bondinginterfaces) ==
    IF networks_bondinginterfaces = <<>> THEN <<>>
    ELSE LET item == networks_bondinginterfaces[1]
         IN  [k \in DOMAIN item[2] |-> <<item[2][k], item[1]>>]
                 \o bonding_pairs(Tail(networks_bondinginterfaces))

\* {label: iname for iname in m for label in m[iname]}: a later item
\* replaces an earlier one with the same label
bonding_ifaces(networks_bondinginterfaces) ==
    LET pairs  == bonding_pairs(networks_bondinginterfaces)
        labels == {pairs[i][1] : i \in DOMAIN pairs}
    IN  [label \in labels |->
            pairs[CHOOSE i \in DOMAIN pairs :
                      /\ pairs[i][1] = label
                      /\ \A j \in DOMAIN pairs :
                             pairs[j][1] = label => j <= i][2]]

\* mutation: the labels are taken in the order of the map, not sorted
bonding_interfaces_unsorted(networks_bondinginterfaces) ==
    LET pairs == bonding_pairs(networks_bondinginterfaces)
    IN  [i \in DOMAIN pairs |-> interface(pairs[i][1], pairs[i][2])]

bonding_interfaces(networks_bondinginterfaces) ==
    LET ifaces == bonding_ifaces(networks_bondinginterfaces)
        labels == sorted(DOMAIN ifaces)
    IN  [i \in DOMAIN labels |-> interface(labels[i], ifaces[labels[i]])]

\* 1 - int(slave_name[-2:]) % 2
nodegroups_idx(slave_name) == 1 - (int(last(slave_name, 2)) % 2)

\* mutation: bonding takes precedence over the multiple-network groups
slave_interfaces_bondingfirst(slave_name, interfaceorder, networks_multiplenetworks, networks_nodegroups, networks_bonding, networks_bondinginterfaces) ==
    IF networks_bonding
    THEN Return(bonding_interfaces(networks_bondinginterfaces))
    ELSE IF networks_multiplenetworks
    THEN Return(enumerate_interfaces(
                    networks_nodegroups[nodegroups_idx(slave_name) + 1].pools))
    ELSE Return(enumerate_interfaces(interfaceorder))

slave_interfaces(slave_name, interfaceorder, networks_multiplenetworks, networks_nodegroups, networks_bonding, networks_bondinginterfaces) ==
    IF networks_multiplenetworks
    THEN IF nodegroups_idx(slave_name) + 1 > Len(networks_nodegroups)
         THEN Raise("IndexError", "list index out of range", <<>>)
         ELSE Return(enumerate_interfaces(
                  networks_nodegroups[nodegroups_idx(slave_name) + 1].pools))
    ELSE IF networks_bonding
    THEN Return(bonding_interfaces(networks_bondinginterfaces))
    ELSE Return(enumerate_interfaces(interfaceorder))

admin_interfaces(interfaceorder, networks_bonding, networks_bondinginterfaces) ==
    IF networks_bonding
    THEN bonding_interfaces(networks_bondinginterfaces)
    ELSE enumerate_interfaces(interfaceorder)

\* {iface['label']: {'networks': [...]} for iface in interfaces}
network_config(interfaces) ==
    [label \in {interfaces[i].label : i \in DOMAIN interfaces} |->
        LET i == CHOOSE j \in DOMAIN interfaces :
                     /\ interfaces[j].label = label
                     /\ \A k \in DOMAIN interfaces :
                            interfaces[k].label = label => k <= j
        IN  [networks |->
                <<IF interfaces[i].l2_network_device # admin
                  THEN interfaces[i].l2_network_device
                  ELSE fuelweb_admin>>]]

-----------------------------------------------------------------------------
(* create_admin_config *)

\* mutation: every boot mode but 'cdrom' is taken as usb
boot_settings_notcdrom(boot_from) ==
    IF boot_from # "cdrom"
    THEN [boot_device_order |-> <<"hd">>, iso_device |-> "disk",
          iso_bus |-> "usb", bootmenu_timeout |-> 3000]
    ELSE [boot_device_order |-> <<"hd", "cdrom">>, iso_device |-> "cdrom",
          iso_bus |-> "ide", bootmenu_timeout |-> 0]

\* the boot order, iso device, iso bus and boot-menu timeout of a boot mode
boot_settings(boot_from) ==
    IF boot_from = "usb"
    THEN [boot_device_order |-> <<"hd">>, iso_device |-> "disk",
          iso_bus |-> "usb", bootmenu_timeout |-> 3000]
    ELSE [boot_device_order |-> <<"hd", "cdrom">>, iso_device |-> "cdrom",
          iso_bus |-> "ide", bootmenu_timeout |-> 0]

create_admin_config(admin_vcpu, admin_memory, admin_sysvolume_capacity, admin_iso_path, boot_from, interfaceorder, numa_nodes, networks_bonding, networks_bondinginterfaces) ==
    LET interfaces == admin_interfaces(interfaceorder, networks_bonding,
                                       networks_bondinginterfaces)
        boot       == boot_settings(boot_from)
        numa       == _calculate_numa(numa_nodes, admin_vcpu, admin_memory,
                                      admin)
    IN  IF numa.kind = "raise" THEN numa
        ELSE Return(
          [name   |-> admin,
           role   |-> "fuel_master",
           params |->
             [vcpu             |-> admin_vcpu,
              memory           |-> admin_memory,
              boot             |-> boot.boot_device_order,
              bootmenu_timeout |-> boot.bootmenu_timeout,
              numa             |-> numa.value,
              volumes          |->
                <<[name     |-> "system",
                   capacity |-> admin_sysvolume_capacity,
                   format   |-> "qcow2"],
                  [name         |-> "iso",
                   source_image |-> admin_iso_path,
                   format       |-> "raw",
                   device       |-> boot.iso_device,
                   bus          |-> boot.iso_bus]>>,
              interfaces       |-> interfaces,
              network_config   |-> network_config(interfaces)]])

-----------------------------------------------------------------------------
(* create_slave_config *)

\* 'a or b' for an optional number a and a number b
or_else(a, b) == IF Truthy(a) THEN a[1] ELSE b

\* mutation: without use_all_disks only the cinder volume is considered
slave_volumes_noswift(slave_volume_capacity, second_volume_capacity, third_volume_capacity, use_all_disks, multipath_count) ==
    LET system == [name            |-> "system",
                   capacity        |-> slave_volume_capacity,
                   multipath_count |-> multipath_count]
        cinder == [name            |-> "cinder",
                   capacity        |-> or_else(second_volume_capacity,
                                               slave_volume_capacity),
                   multipath_count |-> multipath_count]
        swift  == [name     |-> "swift",
                   capacity |-> or_else(third_volume_capacity,
                                        slave_volume_capacity)]
    IN  IF use_all_disks THEN <<system, cinder, swift>>
        ELSE <<system>>
                 \o (IF Truthy(second_volume_capacity) THEN <<cinder>> ELSE <<>>)

slave_volumes(slave_volume_capacity, second_volume_capacity, third_volume_capacity, use_all_disks, multipath_count) ==
    LET system == [name            |-> "system",
                   capacity        |-> slave_volume_capacity,
                   multipath_count |-> multipath_count]
        cinder == [name            |-> "cinder",
                   capacity        |-> or_else(second_volume_capacity,
                                               slave_volume_capacity),
                   multipath_count |-> multipath_count]
        swift  == [name     |-> "swift",
                   capacity |-> or_else(third_volume_capacity,
                                        slave_volume_capacity)]
    IN  IF use_all_disks THEN <<system, cinder, swift>>
        ELSE <<system>>
                 \o (IF Truthy(second_volume_capacity) THEN <<cinder>> ELSE <<>>)
                 \o (IF Truthy(third_volume_capacity) THEN <<swift>> ELSE <<>>)

create_slave_config(slave_name, slave_role, slave_vcpu, slave_memory, slave_volume_capacity, interfaceorder, numa_nodes, second_volume_capacity, third_volume_capacity, use_all_disks, multipath_count, networks_multiplenetworks, networks_nodegroups, networks_bonding, networks_bondinginterfaces) ==
    LET interfaces == slave_interfaces(slave_name, interfaceorder,
                                       networks_multiplenetworks,
                                       networks_nodegroups,
                                       networks_bonding,
                                       networks_bondinginterfaces)
        numa       == _calculate_numa(numa_nodes, slave_vcpu, slave_memory,
                                      slave_name)
    IN  IF interfaces.kind = "raise" THEN interfaces
        ELSE IF numa.kind = "raise" THEN numa
        ELSE Return(
          [name   |-> slave_name,
           role   |-> slave_role,
           params |->
             [vcpu           |-> slave_vcpu,
              memory         |-> slave_memory,
              boot           |-> <<"network", "hd">>,
              numa           |-> numa.value,
              volumes        |-> slave_volumes(slave_volume_capacity,
                                               second_volume_capacity,
                                               third_volume_capacity,
                                               use_all_disks,
                                               multipath_count),
              interfaces     |-> interfaces.value,
              network_config |-> network_config(interfaces.value)]])

-----------------------------------------------------------------------------
(* create_netpools, create_l2_network_devices, create_devops_config *)

create_netpools(interfaceorder) ==
    [netname \in {IF iname = admin THEN fuelweb_admin ELSE iname :
                     iname \in Range(interfaceorder)} |->
        IF netname = fuelweb_admin /\ admin \in Range(interfaceorder)
        THEN admin ELSE netname]

create_l2_network_devices(interfaceorder, networks_dhcp, networks_forwarding) ==
    LET missing == {i \in DOMAIN interfaceorder :
                       \/ interfaceorder[i] \notin DOMAIN networks_dhcp
                       \/ interfaceorder[i] \notin DOMAIN networks_forwarding}
    IN  IF missing # {}
        THEN Raise("KeyError", "{0}",
                   <<interfaceorder[CHOOSE i \in missing :
                                        \A j \in missing : i <= j]>>)
        ELSE Return([iname \in Range(interfaceorder) |->
                        [address_pool |-> iname,
                         dhcp         |-> networks_dhcp[iname],
                         forward      |->
                             [mode |-> networks_forwarding[iname]]]])

\* the first call that raised, in the order the calls are made
first_raise(results) ==
    results[CHOOSE i \in DOMAIN results :
                /\ results[i].kind = "raise"
                /\ \A j \in 1..(i - 1) : results[j].kind = "return"]

\* mutation: the caller's ordering is used with bonding too
effective_interfaceorder_nobonding(networks_bonding, networks_bondinginterfaces, networks_interfaceorder) ==
    networks_interfaceorder

\* l2_interfaceorder: the keys of the bonding map when bonding is enabled
effective_interfaceorder(networks_bonding, networks_bondinginterfaces, networks_interfaceorder) ==
    IF networks_bonding
    THEN bonding_keys(networks_bondinginterfaces)
    ELSE networks_interfaceorder

\* mutation: the ironic nodes get the volume and network inputs of the slaves
ironic_config_asslave(p, ironic_n) ==
    create_slave_config(IronicName(ironic_n), "ironic_slave",
                        p.slave_vcpu, p.slave_memory, p.slave_volume_capacity,
                        <<ironic>>, p.numa_nodes,
                        p.second_volume_capacity, p.third_volume_capacity,
                        p.use_all_disks, p.multipath_count,
                        FALSE, None,
                        p.networks_bonding, p.networks_bondinginterfaces)

\* the create_slave_config call of the ironic loop: the arguments it does
\* not pass take their defaults
ironic_config(p, ironic_n) ==
    create_slave_config(IronicName(ironic_n), "ironic_slave",
                        p.slave_vcpu, p.slave_memory, p.slave_volume_capacity,
                        <<ironic>>, p.numa_nodes,
                        None, None, FALSE, 0,
                        FALSE, None, FALSE, None)

\* p: the keyword arguments of create_devops_config
create_devops_config(p) ==
    LET l2_interfaceorder ==
            effective_interfaceorder(p.networks_bonding,
                                     p.networks_bondinginterfaces,
                                     p.networks_interfaceorder)
        address_pools ==
            create_address_pools(p.networks_interfaceorder, p.networks_pools)
        netpools == create_netpools(p.networks_interfaceorder)
        l2_network_devices ==
            create_l2_network_devices(l2_interfaceorder, p.networks_dhcp,
                                      p.networks_forwarding)
        admin_config ==
            create_admin_config(p.admin_vcpu, p.admin_memory,
                                p.admin_sysvolume_capacity, p.admin_iso_path,
                                p.boot_from, l2_interfaceorder, p.numa_nodes,
                                p.networks_bonding,
                                p.networks_bondinginterfaces)
        slaves ==
            [slave_n \in 1..(p.nodes_count - 1) |->
                create_slave_config(SlaveName(slave_n), "fuel_slave",
                                    p.slave_vcpu, p.slave_memory,
                                    p.slave_volume_capacity,
                                    l2_interfaceorder, p.numa_nodes,
                                    p.second_volume_capacity,
                                    p.third_volume_capacity,
                                    p.use_all_disks, p.multipath_count,
                                    p.networks_multiplenetworks,
                                    p.networks_nodegroups,
                                    p.networks_bonding,
                                    p.networks_bondinginterfaces)]
        ironics ==
            [ironic_n \in 1..p.ironic_nodes_count |-> ironic_config(p, ironic_n)]
        results == <<address_pools, l2_network_devices, admin_config>>
                       \o slaves \o ironics
        config_nodes == [i \in 1..(Len(results) - 2) |-> results[i + 2].value]
    IN  IF \E i \in DOMAIN results : results[i].kind = "raise"
        THEN first_raise(results)
        ELSE Return(
          [template |->
            [devops_settings |->
              [env_name      |-> p.env_name,
               address_pools |-> address_pools.value,
               groups        |->
                 <<[driver |->
                      [name   |-> "devops.driver.libvirt",
                       params |->
                         [connection_string |-> "qemu:///system",
                          storage_pool_name |-> "default",
                          stp               |-> TRUE,
                          hpet              |-> FALSE,
                          use_host_cpu      |-> TRUE,
                          enable_acpi       |-> p.driver_enable_acpi,
                          enable_nwfilters  |-> p.driver_enable_nwfilers]],
                    name               |-> "default",
                    network_pools      |-> netpools,
                    l2_network_devices |-> l2_network_devices.value,
                    nodes              |-> config_nodes]>>]]])

-----------------------------------------------------------------------------
(* Operations: each call of a function of templates.py is one step *)

-----------------------------------------------------------------------------
(* DevopsClient.create_env *)

management == <<"m", "a", "n", "a", "g", "e", "m", "e", "n", "t">>

storage == <<"s", "t", "o", "r", "a", "g", "e">>

\* a or b, for an optional value whose falsy value is given
py_or(a, b, falsy) == IF a # None /\ a[1] # falsy THEN a[1] ELSE b

\* mutation: the caller's volume capacities are passed on as they are
create_env_config_params_asgiven(settings, a) ==
    [boot_from                  |-> a.boot_from,
     env_name                   |-> py_or(a.env_name, settings.ENV_NAME, ""),
     admin_vcpu                 |-> or_else(a.admin_vcpu,
                                            settings.HARDWARE.admin_node_cpu),
     admin_memory               |-> or_else(a.admin_memory,
                                            settings.HARDWARE.admin_node_memory),
     admin_sysvolume_capacity   |-> or_else(a.admin_sysvolume_capacity,
                                            settings.ADMIN_NODE_VOLUME_SIZE),
     admin_iso_path             |-> py_or(a.admin_iso_path, settings.ISO_PATH, ""),
     nodes_count                |-> or_else(a.nodes_count, settings.NODES_COUNT),
     numa_nodes                 |-> Some(settings.HARDWARE.numa_nodes),
     slave_vcpu                 |-> or_else(a.slave_vcpu,
                                            settings.HARDWARE.slave_node_cpu),
     slave_memory               |-> or_else(a.slave_memory,
                                            settings.HARDWARE.slave_node_memory),
     slave_volume_capacity      |-> settings.NODE_VOLUME_SIZE,
     second_volume_capacity     |-> a.second_volume_capacity,
     third_volume_capacity      |-> a.third_volume_capacity,
     use_all_disks              |-> settings.USE_ALL_DISKS,
     multipath_count            |-> settings.SLAVE_MULTIPATH_DISKS_COUNT,
     ironic_nodes_count         |-> settings.IRONIC_NODES_COUNT,
     networks_bonding           |-> settings.BONDING,
     networks_bondinginterfaces |-> settings.BONDING_INTERFACES,
     networks_multiplenetworks  |-> settings.MULTIPLE_NETWORKS,
     networks_nodegroups        |-> settings.NODEGROUPS,
     networks_interfaceorder    |-> settings.INTERFACE_ORDER,
     networks_pools             |-> [k \in {admin, public, management,
                                            private, storage} |->
                                        py_or(a.net_pool, settings.POOLS[k],
                                              <<>>)],
     networks_forwarding        |-> settings.FORWARDING,
     networks_dhcp              |-> settings.DHCP,
     driver_enable_acpi         |-> settings.DRIVER_PARAMETERS.enable_acpi,
     driver_enable_nwfilers     |-> settings.ENABLE_LIBVIRT_NWFILTERS]

\* the keyword arguments of the create_devops_config call
create_env_config_params(settings, a) ==
    [boot_from                  |-> a.boot_from,
     env_name                   |-> py_or(a.env_name, settings.ENV_NAME, ""),
     admin_vcpu                 |-> or_else(a.admin_vcpu,
                                            settings.HARDWARE.admin_node_cpu),
     admin_memory               |-> or_else(a.admin_memory,
                                            settings.HARDWARE.admin_node_memory),
     admin_sysvolume_capacity   |-> or_else(a.admin_sysvolume_capacity,
                                            settings.ADMIN_NODE_VOLUME_SIZE),
     admin_iso_path             |-> py_or(a.admin_iso_path, settings.ISO_PATH, ""),
     nodes_count                |-> or_else(a.nodes_count, settings.NODES_COUNT),
     numa_nodes                 |-> Some(settings.HARDWARE.numa_nodes),
     slave_vcpu                 |-> or_else(a.slave_vcpu,
                                            settings.HARDWARE.slave_node_cpu),
     slave_memory               |-> or_else(a.slave_memory,
                                            settings.HARDWARE.slave_node_memory),
     slave_volume_capacity      |-> settings.NODE_VOLUME_SIZE,
     second_volume_capacity     |-> Some(or_else(a.second_volume_capacity,
                                                 settings.NODE_VOLUME_SIZE)),
     third_volume_capacity      |-> Some(or_else(a.third_volume_capacity,
                                                 settings.NODE_VOLUME_SIZE)),
     use_all_disks              |-> settings.USE_ALL_DISKS,
     multipath_count            |-> settings.SLAVE_MULTIPATH_DISKS_COUNT,
     ironic_nodes_count         |-> settings.IRONIC_NODES_COUNT,
     networks_bonding           |-> settings.BONDING,
     networks_bondinginterfaces |-> settings.BONDING_INTERFACES,
     networks_multiplenetworks  |-> settings.MULTIPLE_NETWORKS,
     networks_nodegroups        |-> settings.NODEGROUPS,
     networks_interfaceorder    |-> settings.INTERFACE_ORDER,
     networks_pools             |-> [k \in {admin, public, management,
                                            private, storage} |->
                                        py_or(a.net_pool, settings.POOLS[k],
                                              <<>>)],
     networks_forwarding        |-> settings.FORWARDING,
     networks_dhcp              |-> settings.DHCP,
     driver_enable_acpi         |-> settings.DRIVER_PARAMETERS.enable_acpi,
     driver_enable_nwfilers     |-> settings.ENABLE_LIBVIRT_NWFILTERS]

\* the environment is created from the document as it is
create_env_from_config(config) == config

create_env(settings, a) ==
    create_env_from_config(
        create_devops_config(create_env_config_params(settings, a)))

OptNumaNodes == {None} \cup {Some(n) : n \in 0..MaxNumaNodes}

NodeNames == {admin, SlaveName(1), IronicName(1)}

CalculateNuma(numa_nodes, vcpu, memory, name) ==
    call' = [op         |-> "_calculate_numa",
             numa_nodes |-> numa_nodes,
             vcpu       |-> vcpu,
             memory     |-> memory,
             name       |-> name,
             ret        |-> _calculate_numa(numa_nodes, vcpu, memory, name)]

NetNames == {admin, public, private, public2, ironic}

SeqsUpTo(S, n) == UNION {[1..k -> S] : k \in 0..n}

InterfaceOrders == SeqsUpTo(NetNames, MaxOrderLen)

PublicPools ==
    {<<c, str(p)>> : c \in {cidr_10_0_0_0_24, cidr_10_109_0_0_16},
                     p \in MinNewPrefix..AddressWidth}

DefaultPool == <<cidr_10_109_0_0_16, str(24)>>

NetworksPools ==
    {[k \in D |-> IF k = public THEN p ELSE DefaultPool] :
        D \in SUBSET NetNames, p \in PublicPools}

CreateAddressPools(interfaceorder, networks_pools) ==
    call' = [op             |-> "create_address_pools",
                interfaceorder |-> interfaceorder,
                networks_pools |-> networks_pools,
                ret            |-> create_address_pools(interfaceorder,
                                                        networks_pools)]

\* the orderings the node builders are called with; the last one is long
\* enough for two-digit interface numbers
NodeOrders ==
    {<<admin, public>>,
     <<public2, admin, private>>,
     [n \in 1..MaxIfaces |->
         <<admin, public, private, public2, ironic>>[(n % 5) + 1]]}

\* bonding maps, each in both iteration orders of its two items
BondingItems ==
    {<< <<admin, <<eth0, eth1>>>>, <<public, <<eth2, eth10>>>> >>,
     << <<admin, <<eth1, eth0>>>>, <<public, <<eth1, eth2>>>> >>}

BondingMaps == BondingItems \cup {<<m[2], m[1]>> : m \in BondingItems}

\* <<networks_bonding, networks_bondinginterfaces>>
BondingInputs == {<<FALSE, None>>} \cup {<<TRUE, m>> : m \in BondingMaps}

NodeGroups ==
    <<[name |-> "default", pools |-> <<admin, public, private>>],
      [name |-> "group-custom-1", pools |-> <<public2, admin>>]>>

\* <<networks_multiplenetworks, networks_nodegroups>>
MultipleNetworksInputs == {<<FALSE, None>>, <<TRUE, NodeGroups>>}

\* <<numa_nodes, vcpu, memory>>
NumaInputs == {<<Some(0), 2, 4>>, <<Some(2), 2, 4>>, <<Some(2), 3, 4>>}

CreateAdminConfig(boot_from, interfaceorder, numa, bonding) ==
    call' = [op                         |-> "create_admin_config",
                boot_from                  |-> boot_from,
                interfaceorder             |-> interfaceorder,
                numa_nodes                 |-> numa[1],
                admin_vcpu                 |-> numa[2],
                admin_memory               |-> numa[3],
                networks_bonding           |-> bonding[1],
                networks_bondinginterfaces |-> bonding[2],
                ret |-> create_admin_config(numa[2], numa[3], 75, "fuel.iso",
                                            boot_from, interfaceorder, numa[1],
                                            bonding[1], bonding[2])]

\* <<use_all_disks, second_volume_capacity, third_volume_capacity>>
VolumeInputs ==
    {<<u, s, t>> : u \in BOOLEAN, s \in {None, Some(0), Some(5)},
                   t \in {None, Some(7)}}

CreateSlaveConfig(slave_n, interfaceorder, numa, volumes, multipath_count, multiple, bonding) ==
    call' = [op                         |-> "create_slave_config",
             slave_n                    |-> slave_n,
             slave_name                 |-> SlaveName(slave_n),
             interfaceorder             |-> interfaceorder,
             numa_nodes                 |-> numa[1],
             slave_vcpu                 |-> numa[2],
             slave_memory               |-> numa[3],
             slave_volume_capacity      |-> 50,
             use_all_disks              |-> volumes[1],
             second_volume_capacity     |-> volumes[2],
             third_volume_capacity      |-> volumes[3],
             multipath_count            |-> multipath_count,
             networks_multiplenetworks  |-> multiple[1],
             networks_nodegroups        |-> multiple[2],
             networks_bonding           |-> bonding[1],
             networks_bondinginterfaces |-> bonding[2],
             ret |-> create_slave_config(SlaveName(slave_n), "fuel_slave",
                                         numa[2], numa[3],
                                         50,
                                         interfaceorder, numa[1],
                                         volumes[2], volumes[3], volumes[1],
                                         multipath_count,
                                         multiple[1], multiple[2],
                                         bonding[1], bonding[2])]

\* the network orderings and subnets create_devops_config is called with
ConfigOrders ==
    {<<admin, public, private>>,
     <<admin, public, private, public2>>,
     <<admin, public, private, public2, ironic>>}

ConfigPools ==
    {[k \in D |-> IF k = public THEN <<cidr_10_0_0_0_24, str(25)>>
                  ELSE DefaultPool] :
        D \in {NetNames, NetNames \ {ironic}}}

ConfigVolumeInputs ==
    {<<FALSE, None, None>>, <<TRUE, None, None>>, <<FALSE, Some(5), Some(7)>>}

ConfigParams ==
    {[boot_from                  |-> boot_from,
      env_name                   |-> "env",
      admin_vcpu                 |-> 2,
      admin_memory               |-> 4,
      admin_sysvolume_capacity   |-> 75,
      admin_iso_path             |-> "fuel.iso",
      nodes_count                |-> nodes_count,
      numa_nodes                 |-> numa[1],
      slave_vcpu                 |-> numa[2],
      slave_memory               |-> numa[3],
      slave_volume_capacity      |-> 50,
      second_volume_capacity     |-> volumes[2],
      third_volume_capacity      |-> volumes[3],
      use_all_disks              |-> volumes[1],
      multipath_count            |-> 2,
      ironic_nodes_count         |-> ironic_nodes_count,
      networks_bonding           |-> bonding[1],
      networks_bondinginterfaces |-> bonding[2],
      networks_multiplenetworks  |-> multiple[1],
      networks_nodegroups        |-> multiple[2],
      networks_interfaceorder    |-> interfaceorder,
      networks_pools             |-> pools,
      networks_forwarding        |-> [k \in NetNames |-> "nat"],
      networks_dhcp              |-> [k \in NetNames |-> FALSE],
      driver_enable_acpi         |-> TRUE,
      driver_enable_nwfilers     |-> FALSE] :
        boot_from \in {"cdrom", "usb"},
        nodes_count \in 1..MaxNodesCount,
        ironic_nodes_count \in 0..MaxIronicNodesCount,
        numa \in NumaInputs,
        volumes \in ConfigVolumeInputs,
        bonding \in BondingInputs,
        multiple \in MultipleNetworksInputs,
        interfaceorder \in ConfigOrders,
        pools \in ConfigPools}

\* a few calls with enough nodes for two-digit slave numbers
BigConfigParams ==
    {[q EXCEPT !.nodes_count = BigNodesCount] :
        q \in {p \in ConfigParams : /\ p.nodes_count = 1
                                    /\ p.boot_from = "cdrom"
                                    /\ ~p.networks_bonding}}

CreateDevopsConfig(p) ==
    call' = [op |-> "create_devops_config", p |-> p,
                ret |-> create_devops_config(p)]

\* the variables a shell environment may set, and their values
EnvNames == {<<"F", "O", "O">>, <<"B", "A", "R">>}

EnvValues == {<<"b", "a", "z">>, <<"7">>, <<>>}

Environs == UNION {[names -> EnvValues] : names \in SUBSET EnvNames}

\* an !os_env directive written as NAME or NAME,default with or without
\* blanks around its parts; an empty NAME without default is a blank value
Directives ==
    [name    : EnvNames \cup {<<>>},
     default : {None, Some(<<>>), Some(<<"b", "a", "r">>), Some(<<"4", "2">>), Some(<<"a", ",", "b">>)},
     blanks  : {<<>>, <<" ">>}]

DirectiveText(d) ==
    d.blanks \o d.name \o d.blanks \o
    (IF d.default = None THEN <<>>
     ELSE <<",">> \o d.blanks \o d.default[1] \o d.blanks)

GetEnvVariable(d, environ) ==
    call' = [op         |-> "yaml_get_env_variable",
             directive  |-> d,
             node_value |-> DirectiveText(d),
             environ    |-> environ,
             ret        |-> yaml_get_env_variable("config.yaml", "!os_env",
                                                  DirectiveText(d), environ)]

\* the settings module: values taken from the shell environment
LegacyNetNames == {admin, public, management, private, storage}

SettingsInputs ==
    {[ENV_NAME                    |-> "fuel_system_test",
      HARDWARE                    |-> [admin_node_cpu    |-> 2,
                                       admin_node_memory |-> 4,
                                       numa_nodes        |-> 0,
                                       slave_node_cpu    |-> 2,
                                       slave_node_memory |-> 4],
      ADMIN_NODE_VOLUME_SIZE      |-> 75,
      ISO_PATH                    |-> "fuel.iso",
      NODES_COUNT                 |-> nodes_count,
      NODE_VOLUME_SIZE            |-> node_volume_size,
      USE_ALL_DISKS               |-> use_all_disks,
      SLAVE_MULTIPATH_DISKS_COUNT |-> 0,
      IRONIC_NODES_COUNT          |-> ironic_nodes_count,
      BONDING                     |-> bonding[1],
      BONDING_INTERFACES          |-> bonding[2],
      MULTIPLE_NETWORKS           |-> FALSE,
      NODEGROUPS                  |-> None,
      INTERFACE_ORDER             |-> <<admin, public, management, private,
                                        storage>>,
      POOLS                       |-> [k \in LegacyNetNames |->
                                         IF k = public
                                         THEN <<cidr_10_0_0_0_24, str(25)>>
                                         ELSE DefaultPool],
      FORWARDING                  |-> [k \in LegacyNetNames |-> "nat"],
      DHCP                        |-> [k \in LegacyNetNames |-> FALSE],
      DRIVER_PARAMETERS           |-> [enable_acpi |-> FALSE],
      ENABLE_LIBVIRT_NWFILTERS    |-> FALSE] :
        nodes_count \in {1, MaxNodesCount},
        node_volume_size \in {0, 50},
        use_all_disks \in BOOLEAN,
        ironic_nodes_count \in 0..MaxIronicNodesCount,
        bonding \in BondingInputs}

\* the arguments of a create_env call; every one may be left out
CreateEnvArgs ==
    [boot_from                : {"cdrom"},
     env_name                 : {None},
     admin_iso_path           : {None},
     admin_vcpu               : {None},
     admin_memory             : {None},
     admin_sysvolume_capacity : {None},
     nodes_count              : {None, Some(2)},
     slave_vcpu               : {None},
     slave_memory             : {None},
     second_volume_capacity   : {None, Some(0), Some(5)},
     third_volume_capacity    : {None, Some(7)},
     net_pool                 : {None, Some(<<cidr_10_109_0_0_16, str(24)>>)}]

CreateEnv(settings, a) ==
    call' = [op       |-> "create_env",
             settings |-> settings,
             a        |-> a,
             ret      |-> create_env(settings, a)]

Init == call = [op |-> "none"]

\* A call is made from the idle state; its inputs are drawn from the sets
\* above.
Idle == call.op = "none"

CalculateNumaCall ==
    /\ Idle
    /\ \E numa_nodes \in OptNumaNodes, vcpu \in 0..MaxVcpu,
          memory \in 0..MaxMemory, name \in NodeNames :
          CalculateNuma(numa_nodes, vcpu, memory, name)

CreateAddressPoolsCall ==
    /\ Idle
    /\ \E interfaceorder \in InterfaceOrders, networks_pools \in NetworksPools :
          CreateAddressPools(interfaceorder, networks_pools)

CreateAdminConfigCall ==
    /\ Idle
    /\ \E boot_from \in {"cdrom", "usb", "hd"}, interfaceorder \in NodeOrders,
          numa \in NumaInputs, bonding \in BondingInputs :
          CreateAdminConfig(boot_from, interfaceorder, numa, bonding)

CreateSlaveConfigCall ==
    /\ Idle
    /\ \E slave_n \in 1..MaxNodesCount, interfaceorder \in NodeOrders,
          numa \in {<<Some(0), 3, 4>>, <<Some(2), 3, 4>>},
          volumes \in VolumeInputs, multipath_count \in {0, 2},
          multiple \in MultipleNetworksInputs, bonding \in BondingInputs :
          CreateSlaveConfig(slave_n, interfaceorder, numa, volumes,
                            multipath_count, multiple, bonding)

CreateDevopsConfigCall ==
    /\ Idle
    /\ \E p \in ConfigParams \cup BigConfigParams : CreateDevopsConfig(p)

GetEnvVariableCall ==
    /\ Idle
    /\ \E d \in Directives, environ \in Environs : GetEnvVariable(d, environ)

CreateEnvCall ==
    /\ Idle
    /\ \E settings \in SettingsInputs, a \in CreateEnvArgs : CreateEnv(settings, a)

Next ==
    \/ CalculateNumaCall
    \/ CreateAddressPoolsCall
    \/ CreateAdminConfigCall
    \/ CreateSlaveConfigCall
    \/ CreateDevopsConfigCall
    \/ GetEnvVariableCall
    \/ CreateEnvCall

Spec == Init /\ [][Next]_vars

-----------------------------------------------------------------------------
(* yaml_template_load: the !include constructor                            *)
(*                                                                         *)
(* A file is the sequence of the values of its !include nodes in document  *)
(* order; the rest of a document does not steer the loader.  The active    *)
(* resolution chain is the stack of the nested yaml.load calls, each with  *)
(* the file it reads and the include it constructs next.                   *)

TemplateNames == {"a.yaml", "b.yaml", "c.yaml"}

\* the directory holds a.yaml and b.yaml; c.yaml does not exist
FileSystems == [{"a.yaml", "b.yaml"} -> SeqsUpTo(TemplateNames, MaxIncludes)]

isfile(fs, file_name) == file_name \in DOMAIN fs

InitLoader ==
    \E fs \in FileSystems, config_file \in {"a.yaml", "c.yaml"} :
        call = [op          |-> "yaml_template_load",
                fs          |-> fs,
                config_file |-> config_file,
                pc          |-> "isfile",
                chain       |-> <<>>,
                ret         |-> None]

Loading == call.op = "yaml_template_load" /\ call.pc = "load"

Top == call.chain[Len(call.chain)]

\* the check of the template file and the outermost yaml.load
OpenTemplate ==
    /\ call.op = "yaml_template_load" /\ call.pc = "isfile"
    /\ call' = IF ~isfile(call.fs, call.config_file)
               THEN [call EXCEPT
                       !.pc = "done",
                       !.ret = Raise("DevopsError",
                                     "Cannot load the environment template {0} : file doesn't exist.",
                                     <<call.config_file>>)]
               ELSE [call EXCEPT
                       !.pc = "load",
                       !.chain = <<[name |-> call.config_file, next |-> 1]>>]

\* yaml_include for the next !include node of the file being loaded: a
\* missing file raises, any other file is opened and loaded by a nested
\* yaml.load, whatever the chain holds; the nesting ends only where the
\* interpreter gives up (recursion limit or open-file limit)
YamlInclude ==
    /\ Loading
    /\ Top.next <= Len(call.fs[Top.name])
    /\ LET file_name == call.fs[Top.name][Top.next]
       IN  IF ~isfile(call.fs, file_name)
           THEN call' = [call EXCEPT
                           !.pc = "done",
                           !.ret = Raise("DevopsError",
                                         "Cannot load the environment template {0} : include file {1} doesn't exist.",
                                         <<Top.name, file_name>>)]
           ELSE IF Len(call.chain) >= RecursionLimit
           THEN \E exc \in {"RuntimeError", "IOError"} :
                   call' = [call EXCEPT !.pc = "done",
                                        !.ret = Raise(exc, "", <<>>)]
           ELSE call' = [call EXCEPT
                           !.chain = Append(@, [name |-> file_name,
                                                next |-> 1])]

\* a yaml.load that has constructed all its nodes returns to its caller
LoadReturns ==
    /\ Loading
    /\ Top.next > Len(call.fs[Top.name])
    /\ call' = IF Len(call.chain) = 1
               THEN [call EXCEPT !.pc = "done", !.chain = <<>>,
                                 !.ret = Return("document")]
               ELSE [call EXCEPT
                       !.chain = [SubSeq(@, 1, Len(@) - 1) EXCEPT
                                    ![Len(@) - 1].next = @ + 1]]

NextLoader ==
    \/ OpenTemplate
    \/ YamlInclude
    \/ LoadReturns

SpecLoader == InitLoader /\ [][NextLoader]_vars

-----------------------------------------------------------------------------
(* helpers.wait and helpers.wait_pass                                      *)
(*                                                                         *)
(* time.time() is a clock of whole seconds that may advance between any    *)
(* two statements.  A predicate is a plain function or lambda, which has   *)
(* a func_name, or a functools.partial (as wait_tcp passes), which has     *)
(* none; what a call of the predicate gives is up to its environment.      *)

Bool(v) == [type |-> "bool", value |-> v]

Float(x) == [type |-> "float", value |-> x]

Callables == {"function", "partial"}

has_func_name(predicate) == predicate = "function"

Timeouts == {None} \cup {Some(t) : t \in 0..MaxTimeout}

InitWait ==
    \E op \in {"wait", "wait_pass"}, predicate \in Callables \cup {"str"},
       interval \in 0..MaxInterval, timeout \in Timeouts, now \in 0..1 :
        /\ op = "wait" => predicate \in Callables
        /\ call = [op         |-> op,
                   predicate  |-> predicate,
                   interval   |-> interval,
                   timeout    |-> timeout,
                   now        |-> now,
                   start_time |-> 0,
                   pc         |-> "begin",
                   last       |-> "none",
                   remaining  |-> None,
                   slept      |-> None,
                   ret        |-> None]

Waiting(op, pc) == call.op = op /\ call.pc = pc

Deadline == call.start_time + call.timeout[1]

Done(ret) == [call EXCEPT !.pc = "done", !.ret = ret]

\* the clock advances while the call is running
ClockTick ==
    /\ call.op \in {"wait", "wait_pass"} /\ call.pc # "done"
    /\ call.now < MaxTime
    /\ call' = [call EXCEPT !.now = @ + 1]

\* wait l.97-99: without a timeout the predicate is called once and its
\* value returned
WaitBegin ==
    /\ Waiting("wait", "begin")
    /\ IF ~Truthy(call.timeout)
       THEN \E v \in BOOLEAN :
               call' = [Done(Return(Bool(v))) EXCEPT
                          !.start_time = call.now,
                          !.last = IF v THEN "true" ELSE "false"]
       ELSE call' = [call EXCEPT !.start_time = call.now, !.pc = "while"]

\* wait l.100: while not predicate()
WaitPredicate ==
    /\ Waiting("wait", "while")
    /\ \E v \in BOOLEAN :
          call' = [call EXCEPT !.last = IF v THEN "true" ELSE "false",
                               !.pc = IF v THEN "return" ELSE "if"]

\* wait l.101: if start_time + timeout < time.time()
WaitDeadline ==
    /\ Waiting("wait", "if")
    /\ call' = [call EXCEPT
                  !.pc = IF Deadline < call.now THEN "msg" ELSE "sleep_for"]

\* wait l.102-110: the message reads predicate.func_name before the
\* TimeoutError is raised
WaitTimeout ==
    /\ Waiting("wait", "msg")
    /\ call' = IF has_func_name(call.predicate)
               THEN Done(Raise("TimeoutError", "Waiting timed out", <<>>))
               ELSE Done(Raise("AttributeError", "func_name", <<>>))

\* wait l.112-114: seconds_to_sleep
WaitSecondsToSleep ==
    /\ Waiting("wait", "sleep_for")
    /\ LET remaining == Deadline - call.now
           least     == IF call.interval < remaining THEN call.interval
                        ELSE remaining
       IN  call' = [call EXCEPT
                      !.remaining = Some(remaining),
                      !.slept = Some(IF least > 0 THEN least ELSE 0),
                      !.pc = "sleep"]

\* wait l.115: time.sleep(seconds_to_sleep)
WaitSleep ==
    /\ Waiting("wait", "sleep")
    /\ call.now + call.slept[1] <= MaxTime
    /\ call' = [call EXCEPT !.now = @ + call.slept[1], !.pc = "while"]

\* wait l.117: return timeout + start_time - time.time()
WaitReturn ==
    /\ Waiting("wait", "return")
    /\ call' = Done(Return(Float(call.timeout[1] + call.start_time - call.now)))

\* wait_pass l.127-129
PassBegin ==
    /\ Waiting("wait_pass", "begin")
    /\ call' = IF call.predicate \notin Callables
               THEN Done(Raise("TypeError",
                               "Not callable raising_predicate has been posted",
                               <<>>))
               ELSE [call EXCEPT !.start_time = call.now, !.pc = "try"]

\* wait_pass l.131-133: the call returns a value, which is returned, or
\* raises an expected exception
PassTry ==
    /\ Waiting("wait_pass", "try")
    /\ \/ call' = [Done(Return("value")) EXCEPT !.last = "returned"]
       \/ call' = [call EXCEPT !.last = "raised", !.pc = "except"]

\* wait_pass l.134: if timeout and start_time + timeout < time.time()
PassDeadline ==
    /\ Waiting("wait_pass", "except")
    /\ call' = [call EXCEPT
                  !.pc = IF Truthy(call.timeout) /\ Deadline < call.now
                         THEN "msg" ELSE "sleep"]

\* wait_pass l.135-143: the message reads raising_predicate.func_name
\* before the exception of the predicate is raised again
PassReraise ==
    /\ Waiting("wait_pass", "msg")
    /\ call' = IF has_func_name(call.predicate)
               THEN Done(Raise("Exception", "", <<>>))
               ELSE Done(Raise("AttributeError", "func_name", <<>>))

\* wait_pass l.144: time.sleep(interval)
PassSleep ==
    /\ Waiting("wait_pass", "sleep")
    /\ call.now + call.interval <= MaxTime
    /\ call' = [call EXCEPT !.now = @ + call.interval,
                            !.slept = Some(call.interval),
                            !.pc = "try"]

NextWait ==
    \/ ClockTick
    \/ WaitBegin
    \/ WaitPredicate
    \/ WaitDeadline
    \/ WaitTimeout
    \/ WaitSecondsToSleep
    \/ WaitSleep
    \/ WaitReturn
    \/ PassBegin
    \/ PassTry
    \/ PassDeadline
    \/ PassReraise
    \/ PassSleep

SpecWait == InitWait /\ [][NextWait]_vars

-----------------------------------------------------------------------------
(* Properties of _calculate_numa *)

RECURSIVE SumSeq(_)
SumSeq(s) == IF s = <<>> THEN 0 ELSE s[1] + SumSeq(Tail(s))

\* the CPU ids a cell lists, read back from its comma-joined string
CellCpuIds(cell) ==
    IF cell.cpus = <<>> THEN <<>>
    ELSE [k \in DOMAIN split(",", cell.cpus) |-> int(split(",", cell.cpus)[k])]

NumaCall == call.op = "_calculate_numa"

NumaExactSplit ==
    /\ NumaCall
    /\ Truthy(call.numa_nodes)
    /\ call.vcpu >= 1 /\ call.memory >= 1
    /\ call.vcpu % call.numa_nodes[1] = 0
    /\ call.memory % call.numa_nodes[1] = 0

\* C1: with vcpu, memory, numaNodes >= 1 and both vcpu and memory exact
\* multiples of numaNodes, _calculate_numa returns exactly numaNodes cells,
\* cell i lists exactly the CPU ids i*(vcpu/numaNodes) ..
\* (i+1)*(vcpu/numaNodes)-1, the CPU-id counts sum to vcpu and the memory
\* values sum to memory.
C1_NumaExactCells ==
    NumaExactSplit =>
        LET n     == call.numa_nodes[1]
            per   == call.vcpu \div n
            cells == call.ret.value
        IN  /\ call.ret.kind = "return"
            /\ Len(cells) = n
            /\ \A i \in 0..(n - 1) :
                  CellCpuIds(cells[i + 1]) =
                      [k \in 1..per |-> i * per + k - 1]
            /\ SumSeq([i \in 1..n |-> Len(CellCpuIds(cells[i]))]) = call.vcpu
            /\ SumSeq([i \in 1..n |-> cells[i].memory]) = call.memory

\* a split into several cells with two-digit CPU ids
C1_Witness ==
    /\ NumaExactSplit
    /\ call.numa_nodes[1] = 3 /\ call.vcpu = 12 /\ call.memory = 6
    /\ call.ret.kind = "return"
    /\ call.ret.value[3].cpus = <<"8", ",", "9", ",", "1", "0", ",", "1", "1">>

NumaInexactSplit ==
    /\ NumaCall
    /\ Truthy(call.numa_nodes)
    /\ \/ call.vcpu % call.numa_nodes[1] # 0
       \/ call.memory % call.numa_nodes[1] # 0

\* C2: for numaNodes >= 1, _calculate_numa raises an error whose message
\* names the node whenever vcpu is not an exact multiple of numaNodes, and
\* likewise whenever memory is not (also when vcpu divides evenly); no
\* cells are returned in either case.
C2_NumaInexactFails ==
    NumaInexactSplit =>
        /\ call.ret.kind = "raise"
        /\ call.ret.exc = "DevopsError"
        /\ call.ret.args[3] = call.name

\* vcpu divides evenly, memory does not
C2_Witness ==
    /\ NumaInexactSplit
    /\ call.vcpu % call.numa_nodes[1] = 0
    /\ call.vcpu >= 2
    /\ call.ret.kind = "raise"
    /\ call.ret.args = <<2, 3, SlaveName(1)>>

\* C3: with numaNodes zero or absent, _calculate_numa returns the empty
\* cell sequence and never fails, whatever vcpu and memory are.
C3_NumaAbsentEmpty ==
    (NumaCall /\ ~Truthy(call.numa_nodes)) => call.ret = Return(<<>>)

C3_WitnessZero ==
    /\ NumaCall /\ call.numa_nodes = Some(0)
    /\ call.vcpu = 3 /\ call.memory = 5
    /\ call.ret.kind = "return"

-----------------------------------------------------------------------------
(* Properties of create_address_pools *)

PoolsCall == call.op = "create_address_pools"

PoolsReturned == PoolsCall /\ call.ret.kind = "return"

\* S: the address count of the first public subnet at the second
\* configured prefix length
PublicSize == pow2(AddressWidth - int(call.networks_pools[public][2]))

PublicKeys == {k \in DOMAIN call.ret.value : contains(public, k)}

\* a mapping was returned that holds a network named after 'public'
PublicSplit == PoolsReturned /\ PublicKeys # {}

RangesOf(k) == call.ret.value[k].params.ip_ranges

\* C5 as stated: the floating range is [S/2, S - 2]
C5_FloatingEndsAtSMinus2 ==
    PublicSplit =>
        \A k \in PublicKeys :
            /\ RangesOf(k).default = <<2, PublicSize \div 2 - 1>>
            /\ RangesOf(k).floating = <<PublicSize \div 2, PublicSize - 2>>

\* C5 (amended): for a network whose name contains 'public', the default
\* range is [2, S/2 - 1] and the floating range is [S/2, -2], its end given
\* as the offset -2 counted from the end of the subnet; for 10.0.0.0/24
\* split at /25 the default range is [2, 63] and the floating range is
\* [64, -2].
C5_PublicRanges ==
    PublicSplit =>
        \A k \in PublicKeys :
            /\ RangesOf(k).default = <<2, PublicSize \div 2 - 1>>
            /\ RangesOf(k).floating = <<PublicSize \div 2, -2>>
            /\ call.networks_pools[public] = <<cidr_10_0_0_0_24, str(25)>> =>
                   /\ RangesOf(k).default = <<2, 63>>
                   /\ RangesOf(k).floating = <<64, -2>>

C5_Witness ==
    /\ PublicSplit
    /\ public \in PublicKeys
    /\ call.networks_pools[public] = <<cidr_10_0_0_0_24, str(25)>>
    /\ RangesOf(public).default = <<2, 63>>

\* an offset as the code emits it, negative ones counted from the end
Offset(o, size) == IF o < 0 THEN size + o ELSE o

OffsetsOf(r, size) == Offset(r[1], size)..Offset(r[2], size)

RangesDisjointAndUsable(k, size) ==
    /\ OffsetsOf(RangesOf(k).default, size)
           \cap OffsetsOf(RangesOf(k).floating, size) = {}
    /\ \A r \in {RangesOf(k).default, RangesOf(k).floating} :
           /\ 2 <= Offset(r[1], size)
           /\ Offset(r[2], size) <= size - 2

\* C6 as stated: for every subnet size the two ranges are disjoint and
\* inside [2, S - 2]
C6_RangesUsableForEverySize ==
    PublicSplit =>
        \A k \in PublicKeys : RangesDisjointAndUsable(k, PublicSize)

\* C6 (amended): for every public subnet size S >= 4 (prefix length at most
\* 30) the default and floating ranges share no address offset and both
\* start at or after offset 2 and end at or before offset S - 2, a negative
\* offset read as counted from the end of the subnet.
C6_RangesUsableFromSize4 ==
    (PublicSplit /\ PublicSize >= 4) =>
        \A k \in PublicKeys : RangesDisjointAndUsable(k, PublicSize)

\* the smallest subnet with two non-empty ranges
C6_Witness ==
    /\ PublicSplit
    /\ public2 \in PublicKeys
    /\ PublicSize = 8
    /\ OffsetsOf(RangesOf(public2).default, PublicSize) = {2, 3}
    /\ OffsetsOf(RangesOf(public2).floating, PublicSize) = {4, 5, 6}

PoolsMissingEntry ==
    /\ PoolsCall
    /\ \E i \in DOMAIN call.interfaceorder :
           call.interfaceorder[i] \notin DOMAIN call.networks_pools

\* C7 as stated: the failure is a DevopsError carrying the network name
C7_MissingPoolDevopsError ==
    PoolsMissingEntry =>
        /\ call.ret.kind = "raise"
        /\ call.ret.exc = "DevopsError"
        /\ call.ret.args = <<first_missing(call.interfaceorder,
                                           call.networks_pools)>>

\* C7 (amended): whenever a name of interfaceorder has no entry in
\* networks_pools, create_address_pools fails with the KeyError of the
\* dictionary lookup, which carries the first such name, and produces no
\* address-pool mapping.
C7_MissingPoolKeyError ==
    PoolsMissingEntry =>
        /\ call.ret.kind = "raise"
        /\ call.ret.exc = "KeyError"
        /\ call.ret.args = <<first_missing(call.interfaceorder,
                                           call.networks_pools)>>

C7_Witness ==
    /\ PoolsMissingEntry
    /\ call.interfaceorder = <<admin, ironic>>
    /\ admin \in DOMAIN call.networks_pools
    /\ call.ret.kind = "raise"
    /\ call.ret.args = <<ironic>>

-----------------------------------------------------------------------------
(* Properties of the documents of create_devops_config *)

ConfigReturned == call.op = "create_devops_config" /\ call.ret.kind = "return"

Settings == call.ret.value.template.devops_settings

Group == Settings.groups[1]

Nodes == Group.nodes

DevicesOf(node) ==
    {node.params.interfaces[j].l2_network_device :
        j \in DOMAIN node.params.interfaces}

\* C4: in every returned document, every network device an interface of
\* any node refers to and every address_pool an l2_network_devices entry
\* refers to is a key of address_pools.
C4_ReferencesHavePools ==
    ConfigReturned =>
        /\ \A i \in DOMAIN Nodes :
               DevicesOf(Nodes[i]) \subseteq DOMAIN Settings.address_pools
        /\ \A d \in DOMAIN Group.l2_network_devices :
               Group.l2_network_devices[d].address_pool
                   \in DOMAIN Settings.address_pools

-----------------------------------------------------------------------------
(* Properties of the interface layout *)

\* The nodes a call has built, each with the layout inputs it was built
\* from: n is the number in the node's name, multiple, bonding and order
\* are the inputs of the node's own layout step.
BuiltNodes ==
    IF call.op = "none" \/ call.ret.kind # "return" THEN {}
    ELSE IF call.op = "create_slave_config"
    THEN {[node     |-> call.ret.value,
           n        |-> call.slave_n,
           multiple |-> call.networks_multiplenetworks,
           groups   |-> call.networks_nodegroups,
           bonding  |-> call.networks_bonding,
           map      |-> call.networks_bondinginterfaces,
           order    |-> call.interfaceorder]}
    ELSE IF call.op = "create_admin_config"
    THEN {[node     |-> call.ret.value,
           n        |-> 0,
           multiple |-> FALSE,
           groups   |-> None,
           bonding  |-> call.networks_bonding,
           map      |-> call.networks_bondinginterfaces,
           order    |-> call.interfaceorder]}
    ELSE IF call.op = "create_devops_config"
    THEN {[node     |-> Nodes[i],
           n        |-> IF i <= call.p.nodes_count THEN i - 1
                        ELSE i - call.p.nodes_count,
           multiple |-> Nodes[i].role = "fuel_slave"
                            /\ call.p.networks_multiplenetworks,
           groups   |-> call.p.networks_nodegroups,
           bonding  |-> Nodes[i].role # "ironic_slave"
                            /\ call.p.networks_bonding,
           map      |-> call.p.networks_bondinginterfaces,
           order    |-> IF Nodes[i].role = "ironic_slave" THEN <<ironic>>
                        ELSE call.p.networks_interfaceorder] :
             i \in DOMAIN Nodes}
    ELSE {}

\* the interfaces are labelled iface0, iface1, ... and bound, in order, to
\* the names of pools
PositionalLayout(interfaces, pools) ==
    /\ Len(interfaces) = Len(pools)
    /\ \A k \in DOMAIN pools :
          /\ interfaces[k].label = iface \o str(k - 1)
          /\ interfaces[k].l2_network_device = pools[k]

BondingLabels(map) == UNION {Range(map[i][2]) : i \in DOMAIN map}

\* one interface per label of the bonding map, in ascending order of
\* label, each bound to a device that lists the label
BondingLayout(interfaces, map) ==
    /\ {interfaces[k].label : k \in DOMAIN interfaces} = BondingLabels(map)
    /\ Len(interfaces) = Cardinality(BondingLabels(map))
    /\ \A j, k \in DOMAIN interfaces :
          j < k => str_lt(interfaces[j].label, interfaces[k].label)
    /\ \A k \in DOMAIN interfaces :
          \E i \in DOMAIN map :
              /\ map[i][1] = interfaces[k].l2_network_device
              /\ interfaces[k].label \in Range(map[i][2])

\* the layout the priority rule gives a node numbered n
PriorityLayout(interfaces, n, multiple, groups, bonding, map, order) ==
    IF multiple
    THEN PositionalLayout(interfaces, groups[(1 - (n % 2)) + 1].pools)
    ELSE IF bonding THEN BondingLayout(interfaces, map)
    ELSE PositionalLayout(interfaces, order)

\* C8 as stated: every node of a document, the admin node included,
\* follows the multiple-network groups when they are supplied
C8_EveryNodeFollowsGroups ==
    ConfigReturned =>
        \A i \in 1..call.p.nodes_count :
            PriorityLayout(Nodes[i].params.interfaces, i - 1,
                           call.p.networks_multiplenetworks,
                           call.p.networks_nodegroups,
                           call.p.networks_bonding,
                           call.p.networks_bondinginterfaces,
                           call.p.networks_interfaceorder)

\* C8 (amended): for every slave node built by create_slave_config the
\* layout follows the priority: with multiple-network groups the
\* interfaces come from the pool ordering of the group at index
\* 1 - (nodeIndex mod 2), labelled iface0, iface1, ..., even if bonding is
\* also supplied; only otherwise the bonding map is used; only with
\* neither, interfaceorder. The admin node is built without the
\* multiple-network groups: it uses the bonding map when bonding is
\* supplied and interfaceorder otherwise.
C8_LayoutPriority ==
    \A b \in BuiltNodes :
        PriorityLayout(b.node.params.interfaces, b.n, b.multiple, b.groups,
                       b.bonding, b.map, b.order)

\* a document whose slave-01 follows group 0 and slave-02 group 1 although
\* bonding is supplied too, while the admin node follows the bonding map
C8_Witness ==
    /\ ConfigReturned
    /\ call.p.networks_multiplenetworks /\ call.p.networks_bonding
    /\ call.p.nodes_count = 3
    /\ DevicesOf(Nodes[2]) = {admin, public, private}
    /\ Nodes[3].params.interfaces =
           <<interface(<<"i", "f", "a", "c", "e", "0">>, public2),
             interface(<<"i", "f", "a", "c", "e", "1">>, admin)>>
    /\ Nodes[1].params.interfaces[1].label = eth0

\* C9: with a bonding map and no multiple-network groups, the interface
\* list has exactly one entry per distinct label of the map, in ascending
\* lexicographic order of label, each bound to a network device whose
\* label set contains the label.
C9_BondingLayout ==
    \A b \in BuiltNodes :
        (b.bonding /\ ~b.multiple) =>
            BondingLayout(b.node.params.interfaces, b.map)

\* eth10 sorts before eth2, and eth1, listed by both devices, appears once
C9_Witness ==
    /\ call.op = "create_slave_config" /\ call.ret.kind = "return"
    /\ call.networks_bonding /\ ~call.networks_multiplenetworks
    /\ \E m \in {call.networks_bondinginterfaces} :
           /\ m[1] = <<public, <<eth1, eth2>>>>
           /\ m[2] = <<admin, <<eth1, eth0>>>>
    /\ call.ret.value.params.interfaces =
           <<interface(eth0, admin), interface(eth1, admin),
             interface(eth2, public)>>

C9_WitnessOrder ==
    /\ call.op = "create_admin_config" /\ call.ret.kind = "return"
    /\ call.networks_bonding
    /\ Len(call.ret.value.params.interfaces) = 4
    /\ [k \in 1..4 |-> call.ret.value.params.interfaces[k].label] =
           <<eth0, eth1, eth10, eth2>>

\* C10: with neither bonding nor multiple-network groups, the interface
\* list has exactly one entry per element of interfaceorder, in the same
\* order, the entry at position N labelled 'iface<N>' and bound to the
\* N-th network name, and the labels are unique within the node.
C10_PositionalLayout ==
    \A b \in BuiltNodes :
        (~b.bonding /\ ~b.multiple) =>
            LET interfaces == b.node.params.interfaces
            IN  /\ PositionalLayout(interfaces, b.order)
                /\ \A j, k \in DOMAIN interfaces :
                      j # k => interfaces[j].label # interfaces[k].label

\* an ordering long enough for the label iface10
C10_Witness ==
    /\ call.op = "create_slave_config" /\ call.ret.kind = "return"
    /\ ~call.networks_bonding /\ ~call.networks_multiplenetworks
    /\ Len(call.interfaceorder) = 11
    /\ call.ret.value.params.interfaces[11] =
           interface(<<"i", "f", "a", "c", "e", "1", "0">>,
                     call.interfaceorder[11])

-----------------------------------------------------------------------------
(* Properties of the admin node *)

\* the admin nodes a call has built, each with the boot mode it was built for
AdminBuilt ==
    IF call.op = "none" \/ call.ret.kind # "return" THEN {}
    ELSE IF call.op = "create_admin_config"
    THEN {[node |-> call.ret.value, boot_from |-> call.boot_from]}
    ELSE IF call.op = "create_devops_config"
    THEN {[node |-> Nodes[1], boot_from |-> call.p.boot_from]}
    ELSE {}

VolumeNames(node) ==
    [i \in DOMAIN node.params.volumes |-> node.params.volumes[i].name]

IsoDeviceFollowsBootMode(b) ==
    /\ VolumeNames(b.node) = <<"system", "iso">>
    /\ b.boot_from = "usb" =>
           /\ b.node.params.volumes[2].device = "disk"
           /\ b.node.params.volumes[2].bus = "usb"
    /\ b.boot_from # "usb" =>
           /\ b.node.params.volumes[2].device = "cdrom"
           /\ b.node.params.volumes[2].bus = "ide"

\* C11 as stated: usb boot has a zero boot-menu timeout, every other boot
\* mode a non-zero one
C11_UsbSkipsBootMenu ==
    \A b \in AdminBuilt :
        /\ IsoDeviceFollowsBootMode(b)
        /\ b.boot_from = "usb" => b.node.params.bootmenu_timeout = 0
        /\ b.boot_from # "usb" => b.node.params.bootmenu_timeout # 0

\* C11 (amended): in the admin node, boot mode 'usb' gives the iso volume
\* device 'disk' on bus 'usb' and a boot-menu timeout of 3000, while every
\* other boot mode gives device 'cdrom' on bus 'ide' and a boot-menu
\* timeout of zero; the volume list is always [system, iso] in that order.
C11_BootMode ==
    \A b \in AdminBuilt :
        /\ IsoDeviceFollowsBootMode(b)
        /\ b.boot_from = "usb" => b.node.params.bootmenu_timeout = 3000
        /\ b.boot_from # "usb" => b.node.params.bootmenu_timeout = 0

\* a boot mode that is neither 'usb' nor 'cdrom'
C11_Witness ==
    /\ call.op = "create_admin_config" /\ call.ret.kind = "return"
    /\ call.boot_from = "hd"
    /\ call.ret.value.params.volumes[2].device = "cdrom"
    /\ call.ret.value.params.bootmenu_timeout = 0

C11_WitnessUsb ==
    /\ ConfigReturned
    /\ call.p.boot_from = "usb"
    /\ Nodes[1].params.bootmenu_timeout = 3000

-----------------------------------------------------------------------------
(* Properties of the node list *)

\* name is prefix followed by the decimal number n in at least two digits
IsNumbered(name, prefix, n) ==
    /\ Len(name) >= Len(prefix) + 2
    /\ SubSeq(name, 1, Len(prefix)) = prefix
    /\ LET digits == SubSeq(name, Len(prefix) + 1, Len(name))
       IN  /\ \A k \in DOMAIN digits : IsDigit(digits[k])
           /\ int(digits) = n
           /\ Len(digits) > 2 => digits[1] # "0"

\* C12: for nodesCount >= 1 and ironicNodesCount >= 0 the node list is one
\* admin node first, then nodesCount - 1 slave nodes slave-01, slave-02,
\* ... in ascending order with role slave, then ironicNodesCount nodes
\* ironic-slave-01, ... with role ironic slave; the names are pairwise
\* distinct.
C12_NodeList ==
    ConfigReturned =>
        /\ Len(Nodes) = call.p.nodes_count + call.p.ironic_nodes_count
        /\ Nodes[1].name = admin /\ Nodes[1].role = "fuel_master"
        /\ \A i \in 1..(call.p.nodes_count - 1) :
              /\ Nodes[1 + i].role = "fuel_slave"
              /\ IsNumbered(Nodes[1 + i].name, slave_prefix, i)
        /\ \A i \in 1..call.p.ironic_nodes_count :
              /\ Nodes[call.p.nodes_count + i].role = "ironic_slave"
              /\ IsNumbered(Nodes[call.p.nodes_count + i].name,
                            ironic_slave_prefix, i)
        /\ \A i, j \in DOMAIN Nodes : i # j => Nodes[i].name # Nodes[j].name

\* nodesCount = 3 and ironicNodesCount = 1
C12_Witness ==
    /\ ConfigReturned
    /\ call.p.nodes_count = 3 /\ call.p.ironic_nodes_count = 1
    /\ [i \in DOMAIN Nodes |-> Nodes[i].name] =
           <<admin, <<"s", "l", "a", "v", "e", "-", "0", "1">>, <<"s", "l", "a", "v", "e", "-", "0", "2">>, <<"i", "r", "o", "n", "i", "c", "-", "s", "l", "a", "v", "e", "-", "0", "1">>>>

C12_WitnessTwoDigits ==
    /\ ConfigReturned
    /\ call.p.nodes_count = BigNodesCount
    /\ Nodes[11].name = <<"s", "l", "a", "v", "e", "-", "1", "0">>

-----------------------------------------------------------------------------
(* Properties of the volumes *)

\* the slave nodes a call has built, each with its volume inputs
SlavesBuilt ==
    IF call.op = "none" \/ call.ret.kind # "return" THEN {}
    ELSE IF call.op = "create_slave_config"
    THEN {[node                   |-> call.ret.value,
           use_all_disks          |-> call.use_all_disks,
           slave_volume_capacity  |-> call.slave_volume_capacity,
           second_volume_capacity |-> call.second_volume_capacity,
           third_volume_capacity  |-> call.third_volume_capacity]}
    ELSE IF call.op = "create_devops_config"
    THEN {[node                   |-> Nodes[i],
           use_all_disks          |-> call.p.use_all_disks,
           slave_volume_capacity  |-> call.p.slave_volume_capacity,
           second_volume_capacity |-> call.p.second_volume_capacity,
           third_volume_capacity  |-> call.p.third_volume_capacity] :
             i \in {k \in DOMAIN Nodes : Nodes[k].role = "fuel_slave"}}
    ELSE {}

\* the volume called name is present exactly when wanted, with the
\* explicit capacity when one is given and the system capacity otherwise
ExtraVolume(b, name, explicit) ==
    LET volumes == b.node.params.volumes
        present == {i \in DOMAIN volumes : volumes[i].name = name}
    IN  /\ (present # {}) <=> (b.use_all_disks \/ Truthy(explicit))
        /\ \A i \in present :
              volumes[i].capacity = IF Truthy(explicit) THEN explicit[1]
                                    ELSE b.slave_volume_capacity

\* C13: for every slave node built by create_slave_config the first volume
\* is 'system'; a 'cinder' volume is present exactly when use_all_disks is
\* set or a second-volume capacity was given, a 'swift' volume exactly
\* when use_all_disks is set or a third-volume capacity was given, and an
\* extra volume's capacity is the explicit capacity when given and
\* otherwise the system volume's capacity. A capacity counts as given
\* when it is neither None nor zero.
C13_SlaveVolumes ==
    \A b \in SlavesBuilt :
        /\ b.node.params.volumes[1].name = "system"
        /\ b.node.params.volumes[1].capacity = b.slave_volume_capacity
        /\ ExtraVolume(b, "cinder", b.second_volume_capacity)
        /\ ExtraVolume(b, "swift", b.third_volume_capacity)

\* a swift volume from its explicit capacity, without a cinder volume
C13_Witness ==
    /\ call.op = "create_slave_config" /\ call.ret.kind = "return"
    /\ ~call.use_all_disks
    /\ call.second_volume_capacity = None
    /\ call.third_volume_capacity = Some(7)
    /\ VolumeNames(call.ret.value) = <<"system", "swift">>
    /\ call.ret.value.params.volumes[2].capacity = 7

C13_WitnessAllDisks ==
    /\ call.op = "create_slave_config" /\ call.ret.kind = "return"
    /\ call.use_all_disks
    /\ call.second_volume_capacity = Some(5)
    /\ call.third_volume_capacity = None
    /\ [i \in 1..3 |-> call.ret.value.params.volumes[i].capacity] =
           <<50, 5, 50>>

IronicNodes == {i \in DOMAIN Nodes : Nodes[i].role = "ironic_slave"}

\* C14: every ironic slave node of a document has exactly one interface,
\* bound to the 'ironic' network, and exactly one volume (system); both are
\* determined by the slave volume capacity alone, so they do not change
\* when use_all_disks, the second and third volume capacities, the
\* multipath count, bonding or the multiple-network inputs are varied.
C14_IronicFixedLayout ==
    ConfigReturned =>
        \A i \in IronicNodes :
            /\ Nodes[i].params.interfaces =
                   <<[label             |-> <<"i", "f", "a", "c", "e", "0">>,
                      l2_network_device |-> ironic,
                      interface_model   |-> "e1000"]>>
            /\ Nodes[i].params.volumes =
                   <<[name            |-> "system",
                      capacity        |-> call.p.slave_volume_capacity,
                      multipath_count |-> 0]>>

\* an ironic node in a document built with all disks, bonding and
\* multiple networks
C14_Witness ==
    /\ ConfigReturned
    /\ IronicNodes # {}
    /\ call.p.use_all_disks
    /\ call.p.networks_bonding /\ call.p.networks_multiplenetworks
    /\ call.p.multipath_count = 2
    /\ call.p.nodes_count = 2
    /\ Len(Nodes[2].params.volumes) = 3

-----------------------------------------------------------------------------
(* Properties of the network sections *)

\* C17 as stated: address_pools and l2_network_devices have the same keys
C17_SameKeys ==
    ConfigReturned =>
        DOMAIN Settings.address_pools = DOMAIN Group.l2_network_devices

\* C17 (amended): create_devops_config builds l2_network_devices from the
\* effective interface ordering (the bonding map's device-name keys when
\* bonding is requested, otherwise the caller-supplied network ordering)
\* but address_pools always from the caller-supplied network ordering, so
\* the two key sets are equal when bonding is not requested, and with
\* bonding they are the bonding map's keys and the caller's network names.
C17_KeySets ==
    ConfigReturned =>
        /\ DOMAIN Settings.address_pools =
               Range(call.p.networks_interfaceorder)
        /\ ~call.p.networks_bonding =>
               DOMAIN Group.l2_network_devices = DOMAIN Settings.address_pools
        /\ call.p.networks_bonding =>
               DOMAIN Group.l2_network_devices =
                   {call.p.networks_bondinginterfaces[i][1] :
                       i \in DOMAIN call.p.networks_bondinginterfaces}

C17_Witness ==
    /\ ConfigReturned
    /\ call.p.networks_bonding
    /\ DOMAIN Group.l2_network_devices = {admin, public}
    /\ DOMAIN Settings.address_pools = {admin, public, private}

-----------------------------------------------------------------------------
(* Properties of the !os_env constructor *)

EnvCall == call.op = "yaml_get_env_variable"

EnvBlank == \A i \in DOMAIN call.node_value : call.node_value[i] = " "

EnvSet == call.directive.name \in DOMAIN call.environ

EnvFails == call.ret.kind = "raise" /\ call.ret.exc = "DevopsError"

\* C16: an !os_env directive 'NAME' or 'NAME,default' resolves to the
\* parsed value of the environment variable NAME when it is set (the
\* default is then ignored), to the parsed value of default when NAME is
\* unset and a default was supplied, and fails with DevopsError when NAME
\* is unset with no default or when the raw value is empty or whitespace.
C16_OsEnv ==
    EnvCall =>
        /\ EnvBlank => EnvFails
        /\ ~EnvBlank /\ EnvSet =>
               call.ret = Return(yaml_load(call.environ[call.directive.name]))
        /\ ~EnvBlank /\ ~EnvSet /\ call.directive.default # None =>
               call.ret = Return(yaml_load(call.directive.default[1]))
        /\ ~EnvSet /\ call.directive.default = None => EnvFails

\* '!os_env FOO,bar' with FOO=baz yields 'baz'
C16_Witness ==
    /\ EnvCall
    /\ call.node_value = <<"F", "O", "O", ",", "b", "a", "r">>
    /\ DOMAIN call.environ = {<<"F", "O", "O">>}
    /\ call.environ[<<"F", "O", "O">>] = <<"b", "a", "z">>
    /\ call.ret.kind = "return"
    /\ call.ret.value.type = "str"
    /\ call.ret.value.value = <<"b", "a", "z">>

\* '!os_env FOO,bar' with FOO unset yields 'bar'
C16_WitnessDefault ==
    /\ EnvCall
    /\ call.node_value = <<"F", "O", "O", ",", "b", "a", "r">>
    /\ call.environ = <<>>
    /\ call.ret.kind = "return"
    /\ call.ret.value.type = "str"
    /\ call.ret.value.value = <<"b", "a", "r">>

\* a default with a comma and blanks, parsed as an int or kept whole
C16_WitnessSplitOnce ==
    /\ EnvCall
    /\ call.node_value = <<" ", "B", "A", "R", " ", ",", " ", "a", ",", "b", " ">>
    /\ call.environ = <<>>
    /\ call.ret.kind = "return"
    /\ call.ret.value.type = "str"
    /\ call.ret.value.value = <<"a", ",", "b">>

C16_WitnessUnset ==
    /\ EnvCall
    /\ call.node_value = <<"F", "O", "O">>
    /\ DOMAIN call.environ = {<<"B", "A", "R">>}
    /\ EnvFails

-----------------------------------------------------------------------------
(* Properties of the !include constructor *)

\* C15: loading a document whose !include directives form a cycle
\* terminates and fails with DevopsError; the loader never recurses
\* without bound, because a path that reappears in the active resolution
\* chain is detected: the chain never holds a path twice, and a load that
\* fails fails with DevopsError.
C15_CycleDetected ==
    call.op = "yaml_template_load" =>
        /\ \A i, j \in DOMAIN call.chain :
              i # j => call.chain[i].name # call.chain[j].name
        /\ call.pc = "done" /\ call.ret.kind = "raise" =>
              call.ret.exc = "DevopsError"

\* the nesting of a cyclic include grows up to the interpreter's limit
C15_ChainWithinLimit ==
    call.op = "yaml_template_load" => Len(call.chain) <= RecursionLimit

\* a.yaml includes itself and is in the chain twice
C15_SelfIncludeNested ==
    /\ Loading
    /\ call.config_file = "a.yaml"
    /\ call.fs["a.yaml"] = <<"a.yaml">>
    /\ Len(call.chain) = 2
    /\ call.chain[1].name = "a.yaml" /\ call.chain[2].name = "a.yaml"

\* an acyclic include loads
C15_AcyclicLoads ==
    /\ call.op = "yaml_template_load" /\ call.pc = "done"
    /\ call.fs["a.yaml"] = <<"b.yaml", "b.yaml">>
    /\ call.fs["b.yaml"] = <<>>
    /\ call.ret.kind = "return"

-----------------------------------------------------------------------------
(* Properties of wait and wait_pass *)

WaitEnded == Waiting("wait", "done")

WaitRaised == WaitEnded /\ call.ret.kind = "raise"

WaitReturned == WaitEnded /\ call.ret.kind = "return"

\* C18: for wait called with a positive timeout, wait raises nothing but
\* TimeoutError, and raises only when the clock is strictly past
\* start + timeout and the preceding predicate evaluation was false; no
\* sleep is longer than the interval or than the time that was left to
\* the deadline when the sleep was computed (a sleep is zero when no
\* time was left); wait never returns normally unless the last
\* predicate evaluation was true.
C18_EndsByTimeoutError ==
    call.op = "wait" /\ Truthy(call.timeout) =>
        /\ WaitRaised =>
              /\ call.ret.exc = "TimeoutError"
              /\ call.now > Deadline
              /\ call.last = "false"
        /\ call.slept # None =>
              /\ call.slept[1] <= call.interval
              /\ call.slept[1] <= call.remaining[1] \/ call.slept[1] = 0
        /\ WaitReturned => call.last = "true"

\* the same for a predicate that has a func_name
C18_FunctionEndsByTimeoutError ==
    has_func_name(call.predicate) => C18_EndsByTimeoutError

C18_TimedOut ==
    /\ WaitRaised
    /\ call.ret.exc = "TimeoutError"
    /\ call.now > Deadline

C18_PartialTimedOut ==
    /\ WaitRaised
    /\ call.predicate = "partial"
    /\ call.ret.exc = "AttributeError"

\* a returned value as a number: False is 0 and True is 1
NumberOf(v) == IF v.type = "bool" THEN (IF v.value THEN 1 ELSE 0) ELSE v.value

\* C19: wait returns the number of seconds left until the deadline
\* (start + timeout - now, never negative) when the predicate becomes
\* true, and returns 0 when timeout is None.
C19_ReturnsSecondsLeft ==
    WaitReturned =>
        /\ call.timeout = None => NumberOf(call.ret.value) = 0
        /\ call.timeout # None =>
              /\ NumberOf(call.ret.value) = Deadline - call.now
              /\ NumberOf(call.ret.value) >= 0

\* what the code returns: the predicate's value without a timeout, else
\* the seconds between the clock and the deadline, of either sign
C19_ReturnValue ==
    WaitReturned =>
        IF Truthy(call.timeout)
        THEN call.ret.value = Float(Deadline - call.now)
        ELSE call.ret.value = Bool(call.last = "true")

C19_ReturnedTrueWithoutTimeout ==
    /\ WaitReturned
    /\ call.timeout = None
    /\ call.ret.value.type = "bool" /\ call.ret.value.value = TRUE

C19_ReturnedNegative ==
    /\ WaitReturned
    /\ Truthy(call.timeout)
    /\ call.ret.value.value < 0

PassEnded == Waiting("wait_pass", "done") /\ call.predicate \in Callables

\* C20: wait_pass calls the predicate again after each expected exception,
\* sleeping interval seconds between attempts, and returns the value of
\* the first call that does not raise; with a timeout set it stops only
\* by re-raising the predicate's own exception from an attempt that
\* failed after start + timeout; with timeout None it never stops while
\* the predicate keeps raising the expected exception.
C20_StopsByReraising ==
    call.op = "wait_pass" =>
        /\ call.slept # None => call.slept[1] = call.interval
        /\ PassEnded /\ call.ret.kind = "return" => call.last = "returned"
        /\ PassEnded /\ call.ret.kind = "raise" =>
              /\ call.ret.exc = "Exception"
              /\ call.last = "raised"
              /\ call.timeout # None
              /\ call.now > Deadline

\* the same for a predicate that has a func_name
C20_FunctionStopsByReraising ==
    has_func_name(call.predicate) => C20_StopsByReraising

C20_Reraised ==
    /\ PassEnded
    /\ call.ret.kind = "raise" /\ call.ret.exc = "Exception"

C20_PartialTimedOut ==
    /\ PassEnded
    /\ call.predicate = "partial"
    /\ call.ret.kind = "raise" /\ call.ret.exc = "AttributeError"

-----------------------------------------------------------------------------
(* Properties of DevopsClient.create_env *)

EnvCreated == call.op = "create_env" /\ call.ret.kind = "return"

EnvSlaves ==
    LET nodes == call.ret.value.template.devops_settings.groups[1].nodes
    IN  {nodes[i] : i \in {k \in DOMAIN nodes : nodes[k].role = "fuel_slave"}}

\* the capacity of the volume called name
CapacityOf(node, name) ==
    LET volumes == node.params.volumes
    IN  volumes[CHOOSE i \in DOMAIN volumes : volumes[i].name = name].capacity

\* C21: through DevopsClient.create_env the second and third volume
\* capacities passed to create_devops_config are always set (the caller's
\* value or the configured node volume size), so with a non-zero
\* configured node volume size every slave node has system, cinder and
\* swift volumes whether or not use_all_disks is set.
C21_LegacyVolumes ==
    EnvCreated /\ call.settings.NODE_VOLUME_SIZE # 0 =>
        \A node \in EnvSlaves :
            /\ VolumeNames(node) = <<"system", "cinder", "swift">>
            /\ CapacityOf(node, "system") = call.settings.NODE_VOLUME_SIZE
            /\ CapacityOf(node, "cinder") =
                   IF Truthy(call.a.second_volume_capacity)
                   THEN call.a.second_volume_capacity[1]
                   ELSE call.settings.NODE_VOLUME_SIZE
            /\ CapacityOf(node, "swift") =
                   IF Truthy(call.a.third_volume_capacity)
                   THEN call.a.third_volume_capacity[1]
                   ELSE call.settings.NODE_VOLUME_SIZE

\* no capacity given, use_all_disks unset, and still three volumes
C21_Witness ==
    /\ EnvCreated
    /\ call.settings.NODE_VOLUME_SIZE = 50
    /\ ~call.settings.USE_ALL_DISKS
    /\ call.a.second_volume_capacity = None
    /\ call.a.third_volume_capacity = None
    /\ EnvSlaves # {}
    /\ \A node \in EnvSlaves :
          [i \in 1..3 |-> node.params.volumes[i].capacity] = <<50, 50, 50>>

\* a node volume size of zero leaves the system volume alone
C21_WitnessZeroSize ==
    /\ EnvCreated
    /\ call.settings.NODE_VOLUME_SIZE = 0
    /\ ~call.settings.USE_ALL_DISKS
    /\ call.a.second_volume_capacity = None
    /\ call.a.third_volume_capacity = None
    /\ EnvSlaves # {}
    /\ \A node \in EnvSlaves : VolumeNames(node) = <<"system">>

=============================================================================
